---- MODULE Spec2Model ----
(***************************************************************************)
(* Model of apod_desktop.py: one run of main() per process, several        *)
(* processes (overlapping scheduled runs) sharing one image directory and   *)
(* one SQLite catalog apod_images.db inside it.                             *)
(*                                                                         *)
(* Each step of main() that touches the disk or the catalog is one action. *)
(* Every step that can raise (sqlite3 errors, OSError on the file write,    *)
(* requests errors) has a failing outcome; an uncaught exception ends the   *)
(* run (pc = "aborted").                                                    *)
(***************************************************************************)
EXTENDS Integers, Sequences, FiniteSets, TLC

(***************************************************************************)
(* Bounds of the model.                                                     *)
(***************************************************************************)
\* a downloaded image has at most MaxLen bytes
MaxLen == 1
\* number of runs of main() over all processes
MaxRuns == 2
\* number of hex digits of a modelled digest (hexdigest() yields 64)
DigestLen == 2

Procs == {"p1", "p2"}

\* argv[1]: the image directory shared by all runs
ImageDir == "images"
\* argv[2]: the APOD dates a run can be started with, 'YYYY-MM-DD' as the
\* sequence of its fields
Dates == { <<"2022", "03", "11">>, <<"2022", "03", "12">> }
\* URLs returned by the NASA API, as sequences of path segments
Urls == { <<"apod.nasa.gov", "image", "a.jpg">>,
          <<"apod.nasa.gov", "image", "b.jpg">>,
          <<"apod.nasa.gov", "image", "b.jpg", ".">> }

None == "None"
\* a local that holds no path or digest yet
Unset == <<>>
\* a directory entry: <<>> when no file has the name, << bytes >> otherwise
NoFile == <<>>
File(b) == << b >>
IsFile(e) == e # NoFile
BytesOf(e) == e[1]

(***************************************************************************)
(* Byte sequences and Python values.                                        *)
(***************************************************************************)
\* the byte values a download is made of
Bytes == {0, 1}

RECURSIVE SeqsUpTo(_, _)
SeqsUpTo(S, n) ==
    IF n = 0 THEN { <<>> }
    ELSE LET shorter == SeqsUpTo(S, n - 1)
         IN  shorter \cup { Append(s, x) : s \in shorter, x \in S }

\* urlresponse.content: any byte string, the empty one included
Contents == SeqsUpTo(Bytes, MaxLen)

\* proper prefixes of a byte string: what a write that fails midway leaves
ProperPrefixes(b) == { SubSeq(b, 1, k) : k \in 0..(Len(b) - 1) }

PyStr(s) == [type |-> "str", val |-> s]
PyList(l) == [type |-> "list", val |-> l]
\* Python ==: values of different types (a list and a str) are never equal
PyEq(a, b) == a.type = b.type /\ a.val = b.val

(***************************************************************************)
(* hashlib.sha256(image_msg).hexdigest(): a string of hex digits, modelled  *)
(* as a sequence of digit values 0..15.  The digest is a mixing function    *)
(* that is injective on the bounded contents (collision resistance).        *)
(***************************************************************************)
RECURSIVE Pow(_, _)
Pow(b, n) == IF n = 0 THEN 1 ELSE b * Pow(b, n - 1)

RECURSIVE Encode(_)
Encode(b) ==
    IF b = <<>> THEN 0
    ELSE Encode(SubSeq(b, 1, Len(b) - 1)) * (Cardinality(Bytes) + 1) + b[Len(b)] + 1

RECURSIVE ToHex(_, _)
ToHex(n, k) ==
    IF k = 0 THEN <<>> ELSE Append(ToHex(n \div 16, k - 1), n % 16)

sha256(b) == ToHex((Encode(b) * 37 + 9) % Pow(16, DigestLen), DigestLen)

Digests == { sha256(b) : b \in Contents }

(***************************************************************************)
(* SQLite helpers.                                                          *)
(***************************************************************************)
DigitChars == <<"0", "1", "2", "3", "4", "5", "6", "7", "8", "9">>

RECURSIVE NatToText(_)
NatToText(n) ==
    IF n < 10 THEN << DigitChars[n + 1] >>
    ELSE Append(NatToText(n \div 10), DigitChars[(n % 10) + 1])

\* an integer bound to a column of TEXT affinity is stored as its decimal text
IntToText(n) == IF n < 0 THEN <<"-">> \o NatToText(0 - n) ELSE NatToText(n)

\* WHERE SHA_256: the text is cast to a number by its longest numeric prefix
\* (decimal digits; hex letters end it) and the row is kept when it is not 0
RECURSIVE NumericPrefixNonZero(_, _)
NumericPrefixNonZero(d, i) ==
    IF i > Len(d) \/ d[i] > 9 THEN FALSE
    ELSE IF d[i] # 0 THEN TRUE
    ELSE NumericPrefixNonZero(d, i + 1)

SqlTruthy(d) == NumericPrefixNonZero(d, 1)

RECURSIVE MapSha(_)
MapSha(rs) ==
    IF rs = <<>> THEN <<>>
    ELSE << << Head(rs).SHA_256 >> >> \o MapSha(Tail(rs))

\* SELECT SHA_256 FROM apod_images WHERE SHA_256 ; fetchall()
SelectShaWhereSha(rs) ==
    MapSha(SelectSeq(rs, LAMBDA r : SqlTruthy(r.SHA_256)))

\* a CREATE TABLE that replaces an existing table: every row is lost
CreateTableReplacing(exists, rs) == <<>>

\* CREATE TABLE IF NOT EXISTS apod_images (...): the rows of the table after it
CreateTableIfNotExists(exists, rs) == IF exists THEN rs ELSE <<>>

\* an INSERT OR REPLACE keyed on SHA_256: the rows of that digest are dropped
InsertOrReplaceRow(rs, info) ==
    Append(SelectSeq(rs, LAMBDA r : r.SHA_256 # info[4]),
           [date      |-> info[1],
            full_path |-> info[2],
            File_size |-> IntToText(info[3]),
            SHA_256   |-> info[4]])

\* INSERT INTO apod_images (date, full_path, File_size, SHA_256) VALUES (?,?,?,?)
\* the table declares no PRIMARY KEY and no UNIQUE column
InsertRow(rs, info) ==
    Append(rs, [date      |-> info[1],
                full_path |-> info[2],
                File_size |-> IntToText(info[3]),
                SHA_256   |-> info[4]])

(***************************************************************************)
(* Paths.                                                                   *)
(***************************************************************************)
\* os.path.normpath: drops "." segments
RECURSIVE normpath(_)
normpath(u) ==
    IF u = <<>> THEN <<>>
    ELSE IF Head(u) = "." THEN normpath(Tail(u))
    ELSE << Head(u) >> \o normpath(Tail(u))

basename(u) == u[Len(u)]

join(dir, name) == << dir, name >>

get_image_path(image_url, dir_path) ==
    join(dir_path, basename(normpath(image_url)))

db_path == join(ImageDir, "apod_images.db")

FilePaths == { get_image_path(u, ImageDir) : u \in Urls }

(***************************************************************************)
(* State.                                                                   *)
(***************************************************************************)
VARIABLES
    tableExists,   \* apod_images.db holds the table apod_images
    rows,          \* the rows of apod_images, in rowid order
    disk,          \* image directory: path -> bytes of the file, or NoFile
    wallpaper,     \* path last given to SystemParametersInfoW, or Unset
    runs,          \* number of runs of main() started so far
    pc,            \* per process: the step of main() it is about to take
    apod_date,     \* per process: local apod_date
    image_msg,     \* per process: local image_msg
    image_sha256,  \* per process: local image_sha256
    image_size,    \* per process: local image_size
    image_path,    \* per process: local image_path
    outcome,       \* per process: how the ingestion of this run ended
    failedAt,      \* per process: the call whose exception ended the run
    wrote,         \* per process: save_image_file returned in this run
    openConnections \* per process: sqlite3 connections opened and not closed

vars == << tableExists, rows, disk, wallpaper, runs, pc, apod_date,
           image_msg, image_sha256, image_size, image_path, outcome,
           failedAt, wrote, openConnections >>

shared == << tableExists, rows, disk, wallpaper >>
locals == << apod_date, image_msg, image_sha256, image_size, image_path >>

Init ==
    /\ tableExists = FALSE
    /\ rows = <<>>
    /\ disk = [f \in FilePaths |-> NoFile]
    /\ wallpaper = Unset
    /\ runs = 0
    /\ pc = [p \in Procs |-> "idle"]
    /\ apod_date = [p \in Procs |-> Unset]
    /\ image_msg = [p \in Procs |-> <<>>]
    /\ image_sha256 = [p \in Procs |-> Unset]
    /\ image_size = [p \in Procs |-> 0]
    /\ image_path = [p \in Procs |-> Unset]
    /\ outcome = [p \in Procs |-> None]
    /\ failedAt = [p \in Procs |-> None]
    /\ wrote = [p \in Procs |-> FALSE]
    /\ openConnections = [p \in Procs |-> 0]

\* an exception that is caught and dropped: main() goes on to its last step
AbortSwallowed(p, call, what) ==
    /\ pc' = [pc EXCEPT ![p] = "set_desktop_background_image"]
    /\ failedAt' = [failedAt EXCEPT ![p] = call]
    /\ outcome' = [outcome EXCEPT ![p] = what]
    /\ UNCHANGED openConnections

\* an uncaught exception in `call` ends the run of p; the process exits and
\* with it every connection it still holds
Abort(p, call, what) ==
    /\ pc' = [pc EXCEPT ![p] = "aborted"]
    /\ failedAt' = [failedAt EXCEPT ![p] = call]
    /\ outcome' = [outcome EXCEPT ![p] = what]
    /\ openConnections' = [openConnections EXCEPT ![p] = 0]

Goto(p, label) ==
    /\ pc' = [pc EXCEPT ![p] = label]
    /\ UNCHANGED failedAt

(***************************************************************************)
(* main(), lines 33-37: a new run of the script starts.                     *)
(***************************************************************************)
main_start(p) ==
    /\ pc[p] \in {"idle", "done", "aborted"}
    /\ runs < MaxRuns
    /\ runs' = runs + 1
    /\ \E d \in Dates : apod_date' = [apod_date EXCEPT ![p] = d]
    /\ image_msg' = [image_msg EXCEPT ![p] = <<>>]
    /\ image_sha256' = [image_sha256 EXCEPT ![p] = Unset]
    /\ image_size' = [image_size EXCEPT ![p] = 0]
    /\ image_path' = [image_path EXCEPT ![p] = Unset]
    /\ outcome' = [outcome EXCEPT ![p] = None]
    /\ failedAt' = [failedAt EXCEPT ![p] = None]
    /\ wrote' = [wrote EXCEPT ![p] = FALSE]
    /\ pc' = [pc EXCEPT ![p] = "create_image_db"]
    /\ UNCHANGED << shared, openConnections >>

(***************************************************************************)
(* create_image_db(db_path), line 40.                                       *)
(***************************************************************************)
create_image_db(p) ==
    /\ pc[p] = "create_image_db"
    /\ \/ \* connect, execute, commit, close
          /\ rows' = CreateTableIfNotExists(tableExists, rows)
          /\ tableExists' = TRUE
          /\ Goto(p, "get_apod_info")
          /\ UNCHANGED << outcome, openConnections >>
       \/ /\ Abort(p, "create_image_db", "StoreUnavailable")
          /\ UNCHANGED << tableExists, rows >>
    /\ UNCHANGED << disk, wallpaper, runs, locals, wrote >>

(***************************************************************************)
(* get_apod_info, download_apod_image, sha256, size and path: lines 43-53.  *)
(***************************************************************************)
get_apod_info(p) ==
    /\ pc[p] = "get_apod_info"
    /\ \/ \E u \in Urls, msg \in Contents :
            /\ image_msg' = [image_msg EXCEPT ![p] = msg]
            /\ image_sha256' = [image_sha256 EXCEPT ![p] = sha256(msg)]
            /\ image_size' = [image_size EXCEPT ![p] = -1 + Len(msg)]
            /\ image_path' = [image_path EXCEPT ![p] = get_image_path(u, ImageDir)]
            /\ Goto(p, "image_already_in_db")
            /\ UNCHANGED << outcome, openConnections >>
       \/ /\ Abort(p, "get_apod_info", "RemoteUnavailable")
          /\ UNCHANGED << image_msg, image_sha256, image_size, image_path >>
    /\ UNCHANGED << shared, runs, apod_date, wrote >>

(***************************************************************************)
(* image_already_in_db(db_path, image_sha256), lines 258-282.               *)
(***************************************************************************)
\* the lookup as an exact match on the SHA_256 column
image_already_in_db_exact(rs, sha) ==
    \E i \in 1..Len(rs) : rs[i].SHA_256 = sha

image_already_in_db_result(rs, sha) ==
    LET results == PyList(SelectShaWhereSha(rs))
    IN  IF PyEq(results, PyStr(sha)) THEN TRUE
        ELSE IF ~PyEq(results, PyStr(sha)) THEN FALSE
        ELSE None

image_already_in_db(p) ==
    /\ pc[p] = "image_already_in_db"
    /\ \/ /\ tableExists
          /\ IF ~(image_already_in_db_result(rows, image_sha256[p]) = TRUE)
             THEN /\ Goto(p, "save_image_file")
                  /\ UNCHANGED outcome
             ELSE /\ Goto(p, "set_desktop_background_image")
                  /\ outcome' = [outcome EXCEPT ![p] = "AlreadyCached"]
          \* connect, execute, fetchall and no close(): the connection stays
          \* open until the interpreter reclaims the object, at the return
          \* (reference counting) or not before the process exits
          /\ \E left \in {0, 1} :
                openConnections' = [openConnections EXCEPT ![p] = @ + left]
       \/ Abort(p, "image_already_in_db", "StoreUnavailable")
    /\ UNCHANGED << shared, runs, locals, wrote >>

(***************************************************************************)
(* save_image_file(image_msg, image_path), lines 183-198.                   *)
(***************************************************************************)
save_image_file(p) ==
    /\ pc[p] = "save_image_file"
    /\ \/ \* open(image_path, 'wb') truncates; write stores the bytes
          /\ disk' = [disk EXCEPT ![image_path[p]] = File(image_msg[p])]
          /\ wrote' = [wrote EXCEPT ![p] = TRUE]
          /\ Goto(p, "add_image_to_db")
          /\ UNCHANGED << outcome, openConnections >>
       \/ \* open() raises: nothing is touched
          /\ Abort(p, "save_image_file", "IoError")
          /\ UNCHANGED << disk, wrote >>
       \/ \* write() raises, or the process is killed, after the truncation:
          \* a partial file is left
          /\ \E part \in ProperPrefixes(image_msg[p]) :
                disk' = [disk EXCEPT ![image_path[p]] = File(part)]
          /\ Abort(p, "save_image_file", "IoError")
          /\ UNCHANGED wrote
    /\ UNCHANGED << tableExists, rows, wallpaper, runs, locals >>

(***************************************************************************)
(* add_image_to_db(db_path, image_path, image_size, image_sha256),          *)
(* lines 226-256.                                                           *)
(***************************************************************************)
add_image_to_db(p) ==
    /\ pc[p] = "add_image_to_db"
    /\ \/ \* connect, execute, commit, close
          /\ tableExists
          /\ rows' = InsertRow(rows, << db_path, image_path[p],
                                        image_size[p], image_sha256[p] >>)
          /\ Goto(p, "set_desktop_background_image")
          /\ outcome' = [outcome EXCEPT ![p] = "Ingested"]
          /\ UNCHANGED openConnections
       \/ /\ Abort(p, "add_image_to_db", "StoreUnavailable")
          /\ UNCHANGED rows
    /\ UNCHANGED << tableExists, disk, wallpaper, runs, locals, wrote >>

(***************************************************************************)
(* set_desktop_background_image(image_path), lines 285-298.                 *)
(***************************************************************************)
set_desktop_background_image(p) ==
    /\ pc[p] = "set_desktop_background_image"
    /\ wallpaper' = image_path[p]
    /\ Goto(p, "done")
    \* main() returns and the process exits
    /\ openConnections' = [openConnections EXCEPT ![p] = 0]
    /\ UNCHANGED << tableExists, rows, disk, runs, locals, outcome, wrote >>

Next ==
    \E p \in Procs :
        \/ main_start(p)
        \/ create_image_db(p)
        \/ get_apod_info(p)
        \/ image_already_in_db(p)
        \/ save_image_file(p)
        \/ add_image_to_db(p)
        \/ set_desktop_background_image(p)

Spec == Init /\ [][Next]_vars

(***************************************************************************)
(* Runs one after the other: a run starts only when no other run is under   *)
(* way (a sequence of ingestions, no overlap).                              *)
(***************************************************************************)
Quiescent(p) == pc[p] \in {"idle", "done", "aborted"}

main_start_alone(p) ==
    /\ \A q \in Procs \ {p} : Quiescent(q)
    /\ main_start(p)

NextSeq ==
    \E p \in Procs :
        \/ main_start_alone(p)
        \/ create_image_db(p)
        \/ get_apod_info(p)
        \/ image_already_in_db(p)
        \/ save_image_file(p)
        \/ add_image_to_db(p)
        \/ set_desktop_background_image(p)

SpecSeq == Init /\ [][NextSeq]_vars

(***************************************************************************)
(* Type correctness.                                                        *)
(***************************************************************************)
TypeOK ==
    /\ tableExists \in BOOLEAN
    /\ \A i \in 1..Len(rows) : rows[i].full_path \in FilePaths
                               /\ rows[i].SHA_256 \in Digests
    /\ \A f \in FilePaths : IsFile(disk[f]) => BytesOf(disk[f]) \in Contents
    /\ runs \in 0..MaxRuns
    /\ \A p \in Procs : image_msg[p] \in Contents

(***************************************************************************)
(* Properties.                                                              *)
(***************************************************************************)
InCatalog(sha) == \E i \in 1..Len(rows) : rows[i].SHA_256 = sha

HasRow(path, sha) ==
    \E i \in 1..Len(rows) : rows[i].full_path = path /\ rows[i].SHA_256 = sha

Ended(p) == outcome[p] \in {"Ingested", "AlreadyCached"}

\* C1: the catalog holds exactly one row per digest ever ingested: every
\* ingestion that ended successfully has a row for its digest, and no two
\* rows carry the same digest.
C1_OneRowPerDigest ==
    /\ \A p \in Procs : Ended(p) => InCatalog(image_sha256[p])
    /\ \A i, j \in 1..Len(rows) :
          rows[i].SHA_256 = rows[j].SHA_256 => i = j

\* C2: a lookup of a digest the catalog already holds sends the run straight
\* to the background step as already cached, so that neither
\* save_image_file nor add_image_to_db runs for known content.
C2_KnownDigestNotStoredAgain ==
    [][\A p \in Procs :
          (/\ pc[p] = "image_already_in_db"
           /\ InCatalog(image_sha256[p])
           /\ pc'[p] \notin {"image_already_in_db", "aborted"})
          => (/\ pc'[p] = "set_desktop_background_image"
              /\ outcome'[p] = "AlreadyCached"
              /\ rows' = rows
              /\ disk' = disk)]_vars

\* C3: for every catalog content and every digest, image_already_in_db
\* returns True exactly when a row holds that digest.
C3_LookupIsExactMatch ==
    \A d \in Digests :
        (image_already_in_db_result(rows, d) = TRUE) <=> InCatalog(d)

\* C4: add_image_to_db on a digest that already has a row fails and leaves
\* the catalog unchanged.
C4_InsertRejectsDuplicate ==
    [][\A p \in Procs :
          (/\ pc[p] = "add_image_to_db"
           /\ InCatalog(image_sha256[p])
           /\ pc'[p] # pc[p])
          => (rows' = rows /\ pc'[p] = "aborted")]_vars

\* C5: while one process is still in the run in which it inserted a digest,
\* the insert of another process for the same digest never ends as a new
\* insert: two overlapping runs never both end as Ingested for one digest.
C5_NoTwoInsertsOfOneDigest ==
    [][\A p, q \in Procs :
          (/\ p # q
           /\ pc[p] = "add_image_to_db"
           /\ pc[q] = "set_desktop_background_image"
           /\ outcome[q] = "Ingested"
           /\ image_sha256[q] = image_sha256[p]
           /\ pc'[p] # pc[p])
          => outcome'[p] # "Ingested"]_vars

\* C6: for every catalog row the file at full_path exists and its content
\* hashes to the row's digest.
C6_RowsPointAtTheirContent ==
    \A i \in 1..Len(rows) :
        /\ IsFile(disk[rows[i].full_path])
        /\ sha256(BytesOf(disk[rows[i].full_path])) = rows[i].SHA_256

\* C7: the row inserted by an ingestion records as File_size a non-negative
\* integer, the exact number of bytes of image_msg that were written.
C7_SizeIsByteCount ==
    \A p \in Procs :
        outcome[p] = "Ingested" =>
            \E i \in 1..Len(rows) :
                /\ rows[i].full_path = image_path[p]
                /\ rows[i].SHA_256 = image_sha256[p]
                /\ rows[i].File_size = IntToText(Len(image_msg[p]))
                /\ Head(rows[i].File_size) # "-"

\* C8: a failing file write leaves the catalog unchanged, and a failing
\* catalog insert does not leave the just-written file behind without a row.
C8_WriteAndInsertAreAtomic ==
    [][\A p \in Procs :
          /\ (pc[p] = "save_image_file" /\ pc'[p] = "aborted")
                => rows' = rows
          /\ (pc[p] = "add_image_to_db" /\ pc'[p] = "aborted")
                => ~(/\ disk'[image_path[p]] = File(image_msg[p])
                     /\ ~HasRow(image_path[p], image_sha256[p])')]_vars

CatalogCalls == {"create_image_db", "image_already_in_db", "add_image_to_db"}

\* C9: a run that a failing catalog call aborted has written no image file.
C9_CatalogFailureBeforeAnyWrite ==
    \A p \in Procs :
        (pc[p] = "aborted" /\ failedAt[p] \in CatalogCalls) => ~wrote[p]

\* C10: create_image_db leaves the table in place and, on an existing
\* catalog, every row as it was, whether it succeeds or fails.
C10_CreateKeepsRows ==
    [][\A p \in Procs :
          (pc[p] = "create_image_db" /\ pc'[p] # pc[p])
          => (/\ pc'[p] = "get_apod_info" => tableExists'
              /\ tableExists => (tableExists' /\ rows' = rows))]_vars

\* a second run of main() has called create_image_db on a catalog that holds
\* the rows of the first run
C10_Witness ==
    \E p \in Procs :
        /\ \A q \in Procs \ {p} : pc[q] = "idle"
        /\ runs = 2
        /\ pc[p] = "get_apod_info"
        /\ Len(rows) > 0

\* C11: the catalog grows monotonically: every step keeps each row it finds,
\* at its position and with its columns, so rows are never updated or deleted.
C11_CatalogGrowsMonotonically ==
    [][/\ Len(rows') >= Len(rows)
       /\ \A i \in 1..Len(rows) : rows'[i] = rows[i]]_vars

\* a second row has been inserted after a first one, for the same digest
C11_Witness ==
    /\ Len(rows) = 2
    /\ rows[1].SHA_256 = rows[2].SHA_256

\* C12: the background is set only by a run whose ingestion ended as a new
\* insert or as already cached, with the path of that outcome: a path that
\* holds a file and that a catalog row records for the run's digest (the
\* file the run wrote, for a new insert); nothing else changes the background.
C12_BackgroundAfterSuccessfulIngestion ==
    [][/\ \A p \in Procs :
             (pc[p] = "set_desktop_background_image" /\ pc'[p] # pc[p])
             => (/\ Ended(p)
                 /\ failedAt[p] = None
                 /\ wallpaper' = image_path[p]
                 /\ IsFile(disk[image_path[p]])
                 /\ HasRow(image_path[p], image_sha256[p])
                 /\ outcome[p] = "Ingested" => wrote[p])
       /\ wallpaper' # wallpaper
             => \E p \in Procs : /\ pc[p] = "set_desktop_background_image"
                                 /\ pc'[p] = "done"]_vars

\* one run has set the background to the file it stored while another run
\* ended in an exception
C12_Witness ==
    \E p, q \in Procs :
        /\ pc[p] = "done"
        /\ outcome[p] = "Ingested"
        /\ wallpaper = image_path[p]
        /\ pc[q] = "aborted"

\* C13: the row inserted by an ingestion records in its date column the APOD
\* date of the run.
C13_RowRecordsApodDate ==
    \A p \in Procs :
        outcome[p] = "Ingested" =>
            \E i \in 1..Len(rows) :
                /\ rows[i].full_path = image_path[p]
                /\ rows[i].SHA_256 = image_sha256[p]
                /\ rows[i].date = apod_date[p]

\* C14: a row is inserted only after the file write of its run has completed,
\* and a write that ends midway (an exception or a crash) leaves every file
\* that a catalog row points at as it was.
C14_RowsNeverPointAtPartialFile ==
    [][\A p \in Procs :
          /\ (pc[p] = "add_image_to_db" /\ Len(rows') > Len(rows))
                => (wrote[p] /\ disk[image_path[p]] = File(image_msg[p]))
          /\ (pc[p] = "save_image_file" /\ pc'[p] = "aborted")
                => \A i \in 1..Len(rows) :
                      disk'[rows[i].full_path] = disk[rows[i].full_path]]_vars

C16_NoConnectionLeftOpen ==
    \A p \in Procs : openConnections[p] = 0

====
